---- MODULE Spec2Model ----
(***************************************************************************)
(* Model of generador_auto.py: MetadataExtractor.extract (one HTTP fetch   *)
(* and the three fallback chains over the parsed document), and main with  *)
(* the git helpers it drives (check_git, is_git_repo, setup_git_repo,      *)
(* git_push_to_github), as a sequential state machine.                     *)
(*                                                                         *)
(* Strings are sequences of symbols.  Text symbols: " " (whitespace) and   *)
(* "x" (any other character).  URL symbols: ":" and "/" as themselves and  *)
(* any other symbol ("https", "site.test", "b", ...) as a run of letters.  *)
(* URLs in the model carry no query, fragment, params or dot segments.     *)
(***************************************************************************)
EXTENDS Naturals, Sequences, FiniteSets

\* Longest text content of a meta tag or a text node, in characters.
MaxLen == 1

------------------------------------------------------------------------------
(* Strings *)

Chars == {" ", "x"}

\* All character strings of length at most n.
StringsUpTo(n) == UNION {[1..k -> Chars] : k \in 0..n}

\* A content with whitespace on both sides.
Padded == <<" ", "x", " ">>

Strings == StringsUpTo(MaxLen) \cup {Padded}

IsSpace(c) == c = " "

RECURSIVE lstrip(_)
lstrip(s) == IF s # <<>> /\ IsSpace(Head(s)) THEN lstrip(Tail(s)) ELSE s

RECURSIVE rstrip(_)
rstrip(s) ==
    IF s # <<>> /\ IsSpace(s[Len(s)]) THEN rstrip(SubSeq(s, 1, Len(s) - 1)) ELSE s

\* str.strip(): leading and trailing whitespace removed.
strip(s) == rstrip(lstrip(s))

\* A Python value that is None or a str.
None == [isNone |-> TRUE, s |-> <<>>]
Str(s) == [isNone |-> FALSE, s |-> s]

\* Python truthiness of a None-or-str value: `if not v` is ~Truthy(v).
Truthy(v) == ~v.isNone /\ v.s # <<>>

------------------------------------------------------------------------------
(* urllib.parse.urljoin on symbol sequences *)

\* Index of the first occurrence of symbol c in s, 0 when there is none.
Find(s, c) ==
    IF \E i \in 1..Len(s) : s[i] = c
    THEN CHOOSE i \in 1..Len(s) : s[i] = c /\ \A j \in 1..(i - 1) : s[j] # c
    ELSE 0

\* Index of the last occurrence of symbol c in s, 0 when there is none.
RFind(s, c) ==
    IF \E i \in 1..Len(s) : s[i] = c
    THEN CHOOSE i \in 1..Len(s) : s[i] = c /\ \A j \in (i + 1)..Len(s) : s[j] # c
    ELSE 0

IsLetters(sym) == sym \notin {":", "/", " ", "[", "]"}

StartsWith(s, p) == Len(s) >= Len(p) /\ SubSeq(s, 1, Len(p)) = p

\* urlsplit: [scheme, netloc, path]; the scheme is the run of letters before
\* the first ":", the netloc what follows a leading "//" up to the next "/".
urlsplit(url) ==
    LET i == Find(url, ":")
        hasScheme == i > 1 /\ \A j \in 1..(i - 1) : IsLetters(url[j])
        scheme == IF hasScheme THEN SubSeq(url, 1, i - 1) ELSE <<>>
        rest == IF hasScheme THEN SubSeq(url, i + 1, Len(url)) ELSE url
        hasNet == StartsWith(rest, <<"/", "/">>)
        after == IF hasNet THEN SubSeq(rest, 3, Len(rest)) ELSE rest
        k == Find(after, "/")
        netloc == IF ~hasNet THEN <<>>
                  ELSE IF k = 0 THEN after ELSE SubSeq(after, 1, k - 1)
        path == IF ~hasNet THEN rest
                ELSE IF k = 0 THEN <<>> ELSE SubSeq(after, k, Len(after))
    IN  [scheme |-> scheme, netloc |-> netloc, path |-> path]

\* urlsplit raises ValueError ("Invalid IPv6 URL") for a netloc with one
\* square bracket and not the other.
UrlsplitRaises(url) ==
    LET netloc == urlsplit(url).netloc
    IN  (\E i \in 1..Len(netloc) : netloc[i] = "[")
            # (\E i \in 1..Len(netloc) : netloc[i] = "]")

\* The schemes of urllib's uses_relative and uses_netloc that the model meets.
uses_relative == {<<>>, <<"http">>, <<"https">>, <<"ftp">>}
uses_netloc == {<<>>, <<"http">>, <<"https">>, <<"ftp">>}

urlunsplit(scheme, netloc, path) ==
    LET p1 == IF netloc # <<>>
                 \/ (scheme # <<>> /\ scheme \in uses_netloc
                     /\ ~StartsWith(path, <<"/", "/">>))
              THEN <<"/", "/">> \o netloc
                   \o (IF path # <<>> /\ Head(path) # "/" THEN <<"/">> ELSE <<>>)
                   \o path
              ELSE path
    IN  IF scheme # <<>> THEN scheme \o <<":">> \o p1 ELSE p1

urljoin(base, url) ==
    IF base = <<>> THEN url
    ELSE IF url = <<>> THEN base
    ELSE
      LET b == urlsplit(base)
          u0 == urlsplit(url)
          scheme == IF u0.scheme = <<>> THEN b.scheme ELSE u0.scheme
      IN  IF scheme # b.scheme \/ scheme \notin uses_relative THEN url
          ELSE IF scheme \in uses_netloc /\ u0.netloc # <<>>
               THEN urlunsplit(scheme, u0.netloc, u0.path)
          ELSE
            LET netloc == IF scheme \in uses_netloc THEN b.netloc ELSE u0.netloc
                cut == RFind(b.path, "/")
                \* base path without its last segment, "/" kept
                baseDir == IF cut = 0 THEN <<"/">> ELSE SubSeq(b.path, 1, cut)
                merged == IF u0.path = <<>> THEN b.path
                          ELSE IF Head(u0.path) = "/" THEN u0.path
                          ELSE baseDir \o u0.path
            IN  urlunsplit(scheme, netloc, IF merged = <<>> /\ u0.path # <<>>
                                           THEN <<"/">> ELSE merged)

\* str.startswith(('http://', 'https://'))
StartsWithHttp(url) ==
    \/ StartsWith(url, <<"http", ":", "/", "/">>)
    \/ StartsWith(url, <<"https", ":", "/", "/">>)

\* An absolute URL carries a scheme.
IsAbsoluteUrl(url) == urlsplit(url).scheme # <<>>

------------------------------------------------------------------------------
(* The parsed document (BeautifulSoup) *)

\* A meta tag as soup.find returns it: absent (None), or a tag whose content
\* attribute is missing (hasContent = FALSE) or holds a string.
NoTag == [present |-> FALSE, hasContent |-> FALSE, content |-> <<>>]
TagNoContent == [present |-> TRUE, hasContent |-> FALSE, content |-> <<>>]
TagWith(s) == [present |-> TRUE, hasContent |-> TRUE, content |-> s]

MetaTags(S) == {NoTag, TagNoContent} \cup {TagWith(s) : s \in S}

\* tag.get("content", default)
Get(tag, default) == IF tag.hasContent THEN tag.content ELSE default

\* Child nodes of an element: a text node, or an element with its own children.
Text(s) == [isText |-> TRUE, text |-> s, kids |-> <<>>]
Elem(kids) == [isText |-> FALSE, text |-> <<>>, kids |-> kids]

\* Tag.string: the text of a tag's only child, followed through only-child
\* elements; None when a tag has no child or more than one.
RECURSIVE TagString(_)
TagString(kids) ==
    IF Len(kids) # 1 THEN None
    ELSE IF kids[1].isText THEN Str(kids[1].text)
    ELSE TagString(kids[1].kids)

\* soup.title: absent, or the <title> element with its children.
NoTitle == [present |-> FALSE, kids |-> <<>>]
TitleEl(kids) == [present |-> TRUE, kids |-> kids]

\* Text nodes are never empty.
TextNodes == {Text(s) : s \in Strings \ {<<>>}}

TitleEls ==
    {NoTitle, TitleEl(<<>>), TitleEl(<<Elem(<<>>)>>),
     TitleEl(<<Elem(<<Text(<<"x">>)>>)>>), TitleEl(<<Text(<<"x">>), Elem(<<>>)>>)}
    \cup {TitleEl(<<t>>) : t \in TextNodes}

\* Image references met in og:image contents and <img src> values.
RelRef == <<"b">>
RootRef == <<"/", "p">>
NetRef == <<"/", "/", "cdn.test", "/", "p">>
AbsRef == <<"https", ":", "/", "/", "cdn.test", "/", "p">>
BadNetRef == <<"/", "/", "[", "/", "p">>

OgImageContents == {<<>>, <<" ">>, <<" ">> \o RootRef, AbsRef}
ImgSrcs == {<<>>, RelRef, RootRef, NetRef, AbsRef, BadNetRef}

\* The first <img> of the document (soup.find("img")); later ones are never
\* read.  An <img> without src has hasContent = FALSE.
ImgTags == {NoTag, TagNoContent} \cup {TagWith(s) : s \in ImgSrcs}

Docs ==
    [ogTitle : MetaTags(Strings), title : TitleEls,
     ogDesc : MetaTags(Strings), metaDesc : MetaTags(Strings),
     ogImage : MetaTags(OgImageContents), img : ImgTags]

\* The document of an empty body.
BlankDoc ==
    [ogTitle |-> NoTag, title |-> NoTitle, ogDesc |-> NoTag, metaDesc |-> NoTag,
     ogImage |-> NoTag, img |-> NoTag]

------------------------------------------------------------------------------
(* MetadataExtractor.extract *)

SinTitulo == <<"Sin titulo">>
SinDescripcion == <<"Sin descripcion">>

\* What requests.get returns or raises: a connection error, a timeout (10 s),
\* or a response with its final status and parsed body.
Statuses == {200, 304, 404, 503}

Responses ==
    {[outcome |-> o, status |-> 0, doc |-> BlankDoc] :
        o \in {"ConnectionError", "Timeout"}}
    \cup {[outcome |-> "response", status |-> s, doc |-> BlankDoc] :
            s \in Statuses \ {200}}
    \cup {[outcome |-> "response", status |-> 200, doc |-> d] : d \in Docs}

NoResponse == [outcome |-> "none", status |-> 0, doc |-> BlankDoc]

\* Response.raise_for_status raises HTTPError for 4xx and 5xx statuses only.
RaisesForStatus(status) == 400 <= status /\ status < 600

\* What a block of extract yields: a value, or the exception it raised.
Value(v) == [raised |-> "", value |-> v]
Raise(exc) == [raised |-> exc, value |-> <<>>]

\* Mutant of TitleOf: the og:title content is taken without .strip().
TitleOfUnstripped(doc) ==
    LET t1 == IF doc.ogTitle.present THEN Str(Get(doc.ogTitle, <<>>)) ELSE None
    IN  IF ~Truthy(t1) /\ doc.title.present
        THEN LET str == TagString(doc.title.kids)
             IN  IF str.isNone THEN Raise("AttributeError")
                 ELSE IF strip(str.s) = <<>> THEN Value(SinTitulo)
                 ELSE Value(strip(str.s))
        ELSE IF ~Truthy(t1) THEN Value(SinTitulo)
        ELSE Value(t1.s)

\* Lines 30-38.
TitleOf(doc) ==
    LET t1 == IF doc.ogTitle.present
              THEN Str(strip(Get(doc.ogTitle, <<>>)))
              ELSE None
    IN  IF ~Truthy(t1) /\ doc.title.present
        THEN LET str == TagString(doc.title.kids)
             IN  IF str.isNone THEN Raise("AttributeError")
                 ELSE IF strip(str.s) = <<>> THEN Value(SinTitulo)
                 ELSE Value(strip(str.s))
        ELSE IF ~Truthy(t1) THEN Value(SinTitulo)
        ELSE Value(t1.s)

\* Mutant of DescOf: the meta name="description" tier is skipped.
DescOfNoMetaTier(doc) ==
    LET d1 == IF doc.ogDesc.present
              THEN Str(strip(Get(doc.ogDesc, <<>>)))
              ELSE None
    IN  IF ~Truthy(d1) THEN SinDescripcion ELSE d1.s

\* Mutant of DescOf: the final default is missing.
DescOfNoDefault(doc) ==
    LET d1 == IF doc.ogDesc.present
              THEN Str(strip(Get(doc.ogDesc, <<>>)))
              ELSE None
        d2 == IF ~Truthy(d1)
              THEN IF doc.metaDesc.present
                   THEN Str(strip(Get(doc.metaDesc, <<>>)))
                   ELSE d1
              ELSE d1
    IN  d2.s

\* Lines 40-50.
DescOf(doc) ==
    LET d1 == IF doc.ogDesc.present
              THEN Str(strip(Get(doc.ogDesc, <<>>)))
              ELSE None
        d2 == IF ~Truthy(d1)
              THEN IF doc.metaDesc.present
                   THEN Str(strip(Get(doc.metaDesc, <<>>)))
                   ELSE d1
              ELSE d1
    IN  IF ~Truthy(d2) THEN SinDescripcion ELSE d2.s

\* Lines 52-60.
ImageOf(url, doc) ==
    LET i1 == IF doc.ogImage.present THEN strip(Get(doc.ogImage, <<>>)) ELSE <<>>
    IN  IF i1 = <<>>
        THEN IF doc.img.present /\ doc.img.hasContent /\ doc.img.content # <<>>
             THEN IF UrlsplitRaises(doc.img.content) THEN Raise("ValueError")
                  ELSE Value(urljoin(url, doc.img.content))
             ELSE Value(i1)
        ELSE Value(i1)

\* What extract returns (ok) or the exception it raises (exc, wrapping cause).
Returned(title, desc, img) ==
    [ok |-> TRUE, title |-> title, desc |-> desc, img |-> img,
     exc |-> "", cause |-> ""]

\* Mutant of Wrapped: the raised error's class tells fetch from parse faults.
WrappedByKind(cause) ==
    [ok |-> FALSE, title |-> <<>>, desc |-> <<>>, img |-> <<>>,
     exc |-> IF cause \in {"ConnectionError", "Timeout", "HTTPError"}
             THEN "FetchError" ELSE "ParseError",
     cause |-> cause]

\* Lines 64-65: every exception is re-raised as a plain Exception whose
\* message carries the original one.
Wrapped(cause) ==
    [ok |-> FALSE, title |-> <<>>, desc |-> <<>>, img |-> <<>>,
     exc |-> "Exception", cause |-> cause]

NoMeta ==
    [ok |-> FALSE, title |-> <<>>, desc |-> <<>>, img |-> <<>>,
     exc |-> "", cause |-> ""]

extract(url, resp) ==
    IF resp.outcome # "response" THEN Wrapped(resp.outcome)
    ELSE IF RaisesForStatus(resp.status) THEN Wrapped("HTTPError")
    ELSE LET t == TitleOf(resp.doc)
             i == ImageOf(url, resp.doc)
         IN  IF t.raised # "" THEN Wrapped(t.raised)
             ELSE IF i.raised # "" THEN Wrapped(i.raised)
             ELSE Returned(t.value, DescOf(resp.doc), i.value)

------------------------------------------------------------------------------
(* generate_html, the configuration file *)

\* str.replace('"', '&quot;').replace("'", '&#39;'), symbol by symbol.
Escape(s) ==
    [i \in 1..Len(s) |->
        IF s[i] = "\"" THEN "&quot;" ELSE IF s[i] = "'" THEN "&#39;" ELSE s[i]]

NoFile ==
    [written |-> FALSE, ogUrl |-> <<>>, redirect |-> <<>>, title |-> <<>>,
     desc |-> <<>>, image |-> <<>>]

\* The fields the template of generate_html is filled with.
generate_html(visible_url, redirect_url, title, desc, img) ==
    [written |-> TRUE, ogUrl |-> visible_url, redirect |-> redirect_url,
     title |-> Escape(title), desc |-> Escape(desc), image |-> img]

\* load_config: None, or the dict read from .link_config.json; a dict that
\* lacks the two keys has hasKeys = FALSE.
NoConfig == [loaded |-> FALSE, hasKeys |-> FALSE, visible |-> <<>>, hidden |-> <<>>]
Config(v, h) == [loaded |-> TRUE, hasKeys |-> TRUE, visible |-> v, hidden |-> h]
ConfigNoKeys == [loaded |-> TRUE, hasKeys |-> FALSE, visible |-> <<>>, hidden |-> <<>>]

PageUrl == <<"https", ":", "/", "/", "site.test", "/", "dir", "/", "page">>
SiteUrl == <<"http", ":", "/", "/", "site.test">>
FtpUrl == <<"ftp", ":", "/", "/", "site.test", "/">>
HiddenUrl == <<"https", ":", "/", "/", "dest.test", "/">>

\* What the user may type at a URL prompt, before .strip().
VisibleInputs == {<<" ">>, FtpUrl, PageUrl \o <<" ">>, SiteUrl}
HiddenInputs == {<<>>, FtpUrl, <<" ">> \o HiddenUrl}

StoredConfigs == {NoConfig, ConfigNoKeys, Config(PageUrl, HiddenUrl), Config(FtpUrl, HiddenUrl)}

------------------------------------------------------------------------------
(* main *)

VARIABLES
    pc,          \* where main (or the function it called) stands
    exit,        \* "running", or the exit status "0" or "1"
    config,      \* main's config, the value load_config returned
    visible,     \* main's visible
    hidden,      \* main's hidden
    response,    \* what requests.get gave the running or last call of extract
    meta,        \* what that call of extract returned or raised
    error,       \* the exception main's except clause caught, "" if none
    indexHtml,   \* index.html as this run wrote it
    savedConfig, \* .link_config.json as this run wrote it
    gitLog,      \* the git commands run so far, each with its outcome
    opcion,      \* main's opcion, "" before the deployment menu
    commitMsg,   \* the message passed to git_push_to_github
    pushReturn,  \* what git_push_to_github returned: "none", "True", "False"
    pushPath,    \* the return statement it left by
    printed      \* the kinds of message printed so far

vars ==
    <<pc, exit, config, visible, hidden, response, meta, error, indexHtml,
      savedConfig, gitLog, opcion, commitMsg, pushReturn, pushPath, printed>>

\* subprocess.run(..., check=True): the command succeeds, exits non-zero
\* (CalledProcessError), or cannot be started (FileNotFoundError).
RunOutcomes == {"ok", "fail", "oserror"}

Ran(cmd, outcome) == [cmd |-> cmd, outcome |-> outcome]

Init ==
    /\ pc = "check_git"
    /\ exit = "running"
    /\ config = NoConfig
    /\ visible = <<>>
    /\ hidden = <<>>
    /\ response = NoResponse
    /\ meta = NoMeta
    /\ error = ""
    /\ indexHtml = NoFile
    /\ savedConfig = NoConfig
    /\ gitLog = <<>>
    /\ opcion = ""
    /\ commitMsg = <<>>
    /\ pushReturn = "none"
    /\ pushPath = "none"
    /\ printed = {}

\* sys.exit(status), or main returning (status "0").
Exit(status) == pc' = "done" /\ exit' = status

\* An exception raised inside main's try block: control moves to the except
\* clause of lines 387-389.
Caught(exc) == pc' = "except" /\ error' = exc /\ exit' = exit

\* Lines 283-286, check_git (lines 155-163).
CheckGit ==
    /\ pc = "check_git"
    /\ \E o \in RunOutcomes :
        /\ gitLog' = Append(gitLog, Ran("version", o))
        /\ IF o = "ok"
           THEN pc' = "load_config" /\ exit' = exit /\ printed' = printed
           ELSE Exit("1") /\ printed' = printed \cup {"no_git"}
    /\ UNCHANGED <<opcion, config, visible, hidden, response, meta, error, indexHtml,
                   savedConfig, commitMsg, pushReturn, pushPath>>

\* Lines 289-290, load_config (lines 266-274).
LoadConfig ==
    /\ pc = "load_config"
    /\ \E c \in StoredConfigs :
        /\ config' = c
        /\ pc' = IF c.loaded THEN "ask_prev" ELSE "input_urls"
    /\ UNCHANGED <<opcion, exit, visible, hidden, response, meta, error, indexHtml,
                   savedConfig, gitLog, commitMsg, pushReturn, pushPath, printed>>

\* Lines 291-297: the last configuration is shown and may be reused; a dict
\* without the keys ends main by an uncaught KeyError.
AskUsePrevious ==
    /\ pc = "ask_prev"
    /\ \E usar_anterior \in {"s", "n"} :
        IF usar_anterior = "s"
        THEN IF config.hasKeys
             THEN /\ visible' = config.visible
                  /\ hidden' = config.hidden
                  /\ pc' = "validate"
                  /\ exit' = exit
                  /\ printed' = printed
             ELSE /\ Exit("1")
                  /\ printed' = printed \cup {"traceback"}
                  /\ UNCHANGED <<visible, hidden>>
        ELSE /\ pc' = "input_urls"
             /\ UNCHANGED <<exit, visible, hidden, printed>>
    /\ UNCHANGED <<opcion, config, response, meta, error, indexHtml, savedConfig, gitLog,
                   commitMsg, pushReturn, pushPath>>

\* Lines 299-303.
InputUrls ==
    /\ pc = "input_urls"
    /\ \E v \in VisibleInputs, h \in HiddenInputs :
        /\ visible' = strip(v)
        /\ hidden' = strip(h)
    /\ pc' = "validate"
    /\ UNCHANGED <<opcion, exit, config, response, meta, error, indexHtml, savedConfig,
                   gitLog, commitMsg, pushReturn, pushPath, printed>>

\* Lines 305-318.  config is not read after this point.
Validate ==
    /\ pc = "validate"
    /\ IF visible = <<>> \/ hidden = <<>>
       THEN Exit("1") /\ printed' = printed \cup {"need_urls"}
       ELSE IF ~StartsWithHttp(visible)
       THEN Exit("1") /\ printed' = printed \cup {"bad_visible"}
       ELSE IF ~StartsWithHttp(hidden)
       THEN Exit("1") /\ printed' = printed \cup {"bad_hidden"}
       ELSE pc' = "extract" /\ exit' = exit /\ printed' = printed \cup {"extracting"}
    /\ config' = NoConfig
    /\ UNCHANGED <<opcion, visible, hidden, response, meta, error, indexHtml, savedConfig,
                   gitLog, commitMsg, pushReturn, pushPath>>

\* Mutant of Extract: a raised error does not stop main, which goes on to
\* generate the page.
ExtractSwallowsError ==
    /\ pc = "extract"
    /\ \E resp \in Responses :
        /\ response' = resp
        /\ meta' = extract(visible, resp)
    /\ pc' = "generate"
    /\ UNCHANGED <<opcion, exit, config, visible, hidden, error, indexHtml,
                   savedConfig, gitLog, commitMsg, pushReturn, pushPath, printed>>

\* Lines 322-323: extractor.extract() returns a triple or raises.
Extract ==
    /\ pc = "extract"
    /\ \E resp \in Responses :
        /\ response' = resp
        /\ meta' = extract(visible, resp)
        /\ IF meta'.ok
           THEN pc' = "generate" /\ error' = error
           ELSE pc' = "except" /\ error' = meta'.exc
    /\ UNCHANGED <<opcion, exit, config, visible, hidden, indexHtml, savedConfig, gitLog,
                   commitMsg, pushReturn, pushPath, printed>>

\* Lines 325-337: the metadata is printed and index.html written; open or
\* write may fail with OSError.  The response does not outlive extract.
WriteHtml ==
    /\ pc = "generate"
    /\ \E o \in {"ok", "oserror"} :
        IF o = "ok"
        THEN /\ indexHtml' = generate_html(visible, hidden, meta.title, meta.desc, meta.img)
             /\ printed' = printed \cup {"metadata", "generated"}
             /\ pc' = "save_config"
             /\ UNCHANGED <<error, exit>>
        ELSE /\ Caught("OSError")
             /\ printed' = printed \cup {"metadata"}
             /\ UNCHANGED indexHtml
    /\ response' = NoResponse
    /\ UNCHANGED <<opcion, config, visible, hidden, meta, savedConfig, gitLog, commitMsg,
                   pushReturn, pushPath>>

\* Lines 340-347, save_config (lines 255-263).
SaveConfig ==
    /\ pc = "save_config"
    /\ \E o \in {"ok", "oserror"} :
        IF o = "ok"
        THEN /\ savedConfig' = Config(visible, hidden)
             /\ printed' = printed \cup {"summary"}
             /\ pc' = "is_repo"
             /\ UNCHANGED <<error, exit>>
        ELSE /\ Caught("OSError")
             /\ UNCHANGED <<savedConfig, printed>>
    /\ UNCHANGED <<opcion, config, visible, hidden, response, meta, indexHtml, gitLog,
                   commitMsg, pushReturn, pushPath>>

\* Lines 350-362, is_git_repo (lines 166-174): a FileNotFoundError is not
\* caught there and reaches main's except clause.
IsGitRepo ==
    /\ pc = "is_repo"
    /\ \E o \in RunOutcomes :
        /\ gitLog' = Append(gitLog, Ran("rev-parse", o))
        /\ IF o = "ok"
           THEN pc' = "menu" /\ printed' = printed /\ UNCHANGED <<error, exit>>
           ELSE IF o = "fail"
           THEN pc' = "ask_setup" /\ printed' = printed \cup {"no_repo"}
                /\ UNCHANGED <<error, exit>>
           ELSE Caught("FileNotFoundError") /\ printed' = printed
    /\ UNCHANGED <<opcion, config, visible, hidden, response, meta, indexHtml, savedConfig,
                   commitMsg, pushReturn, pushPath>>

\* Lines 352-362: without a repository main offers to set one up and exits
\* with status 0 when the user declines.
AskSetup ==
    /\ pc = "ask_setup"
    /\ \E configurar \in {"s", "n"} :
        IF configurar = "s"
        THEN pc' = "setup" /\ exit' = exit /\ printed' = printed
        ELSE Exit("0") /\ printed' = printed \cup {"setup_hint"}
    /\ UNCHANGED <<opcion, config, visible, hidden, response, meta, error, indexHtml,
                   savedConfig, gitLog, commitMsg, pushReturn, pushPath>>

\* The commands setup_git_repo runs for the outcomes of git init, git remote
\* add and git branch -M and the URL typed: each only after the previous
\* one succeeded, the last two only for a non-empty URL.
SetupCommands(oInit, repo_url, oRemote, oBranch) ==
    <<Ran("init", oInit)>>
    \o (IF oInit = "ok" /\ repo_url # <<>>
        THEN <<Ran("remote", oRemote)>>
             \o (IF oRemote = "ok" THEN <<Ran("branch", oBranch)>> ELSE <<>>)
        ELSE <<>>)

\* setup_git_repo (lines 215-252) returns True when every command it ran
\* succeeded and the URL was given.
SetupReturnsTrue(oInit, repo_url, oRemote, oBranch) ==
    oInit = "ok" /\ repo_url # <<>> /\ oRemote = "ok" /\ oBranch = "ok"

\* Lines 355-357, setup_git_repo (lines 215-252).
SetupGitRepo ==
    /\ pc = "setup"
    /\ \E oInit \in RunOutcomes, oRemote \in RunOutcomes, oBranch \in RunOutcomes,
          typed \in {<<" ">>, <<"repo.git">>} :
        LET repo_url == strip(typed)
            cmds == SetupCommands(oInit, repo_url, oRemote, oBranch)
        IN  /\ gitLog' = gitLog \o cmds
            /\ IF cmds[Len(cmds)].outcome = "oserror"
               THEN Caught("FileNotFoundError") /\ printed' = printed \cup {"setup"}
               ELSE IF SetupReturnsTrue(oInit, repo_url, oRemote, oBranch)
               THEN pc' = "menu" /\ printed' = printed \cup {"setup", "setup_ok"}
                    /\ UNCHANGED <<error, exit>>
               ELSE Exit("0") /\ printed' = printed \cup {"setup", "setup_failed"}
                    /\ error' = error
    /\ UNCHANGED <<opcion, config, visible, hidden, response, meta, indexHtml, savedConfig,
                   commitMsg, pushReturn, pushPath>>

\* title[:30]
First30(s) == SubSeq(s, 1, IF Len(s) < 30 THEN Len(s) ELSE 30)

\* Lines 365-385: option 1 calls git_push_to_github with the typed or the
\* default message; any other answer ends main without a git command.
DeployMenu ==
    /\ pc = "menu"
    /\ \E o \in {"1", "2"}, typed \in {<<>>, <<"msg">>} :
        /\ opcion' = o
        /\ IF o = "1"
           THEN /\ commitMsg' = IF typed = <<>>
                                THEN <<"Actualizar link preview: ">>
                                     \o First30(meta.title)
                                ELSE typed
                /\ pc' = "git_add"
                /\ printed' = printed \cup {"options"}
                /\ exit' = exit
           ELSE /\ Exit("0")
                /\ printed' = printed \cup {"options", "manual"}
                /\ UNCHANGED commitMsg
    /\ UNCHANGED <<config, visible, hidden, response, meta, error, indexHtml,
                   savedConfig, gitLog, pushReturn, pushPath>>

\* The value git_push_to_github returns by each of its return statements.
ReturnOf(path) == IF path = "pushed" THEN "True" ELSE "False"

\* git_push_to_github returns (lines 193, 204, 212).
Return(path) ==
    /\ pushPath' = path
    /\ pushReturn' = ReturnOf(path)
    /\ pc' = "returned"
    /\ UNCHANGED <<error, exit>>

\* Line 183.
GitAdd ==
    /\ pc = "git_add"
    /\ \E o \in RunOutcomes :
        /\ gitLog' = Append(gitLog, Ran("add", o))
        /\ IF o = "ok"
           THEN pc' = "git_status" /\ printed' = printed \cup {"uploading"}
                /\ UNCHANGED <<error, exit, pushReturn, pushPath>>
           ELSE IF o = "fail"
           THEN Return("git_error") /\ printed' = printed \cup {"uploading", "git_error"}
           ELSE Caught("FileNotFoundError") /\ printed' = printed \cup {"uploading"}
                /\ UNCHANGED <<pushReturn, pushPath>>
    /\ UNCHANGED <<opcion, config, visible, hidden, response, meta, indexHtml, savedConfig,
                   commitMsg>>

\* Mutant of GitStatus: the emptiness of the output is not tested, so a clean
\* tree is committed too.
GitStatusIgnoresOutput ==
    /\ pc = "git_status"
    /\ \E o \in {"dirty", "clean", "fail", "oserror"} :
        /\ gitLog' = Append(gitLog, Ran("status", o))
        /\ IF o \in {"dirty", "clean"}
           THEN pc' = "git_commit" /\ printed' = printed
                /\ UNCHANGED <<error, exit, pushReturn, pushPath>>
           ELSE IF o = "fail"
           THEN Return("git_error") /\ printed' = printed \cup {"git_error"}
           ELSE Caught("FileNotFoundError") /\ printed' = printed
                /\ UNCHANGED <<pushReturn, pushPath>>
    /\ UNCHANGED <<opcion, config, visible, hidden, response, meta, indexHtml,
                   savedConfig, commitMsg>>

\* Lines 186-193: git status --porcelain; empty output means nothing to commit.
GitStatus ==
    /\ pc = "git_status"
    /\ \E o \in {"dirty", "clean", "fail", "oserror"} :
        /\ gitLog' = Append(gitLog, Ran("status", o))
        /\ IF o = "dirty"
           THEN pc' = "git_commit" /\ printed' = printed
                /\ UNCHANGED <<error, exit, pushReturn, pushPath>>
           ELSE IF o = "clean"
           THEN Return("nothing_to_commit") /\ printed' = printed \cup {"no_changes"}
           ELSE IF o = "fail"
           THEN Return("git_error") /\ printed' = printed \cup {"git_error"}
           ELSE Caught("FileNotFoundError") /\ printed' = printed
                /\ UNCHANGED <<pushReturn, pushPath>>
    /\ UNCHANGED <<opcion, config, visible, hidden, response, meta, indexHtml, savedConfig,
                   commitMsg>>

\* Line 196.
GitCommit ==
    /\ pc = "git_commit"
    /\ \E o \in RunOutcomes :
        /\ gitLog' = Append(gitLog, Ran("commit", o))
        /\ IF o = "ok"
           THEN pc' = "git_push" /\ printed' = printed
                /\ UNCHANGED <<error, exit, pushReturn, pushPath>>
           ELSE IF o = "fail"
           THEN Return("git_error") /\ printed' = printed \cup {"git_error"}
           ELSE Caught("FileNotFoundError") /\ printed' = printed
                /\ UNCHANGED <<pushReturn, pushPath>>
    /\ UNCHANGED <<opcion, config, visible, hidden, response, meta, indexHtml, savedConfig,
                   commitMsg>>

\* Lines 199-204.
GitPush ==
    /\ pc = "git_push"
    /\ \E o \in RunOutcomes :
        /\ gitLog' = Append(gitLog, Ran("push", o))
        /\ IF o = "ok"
           THEN Return("pushed") /\ printed' = printed \cup {"uploaded"}
           ELSE IF o = "fail"
           THEN Return("git_error") /\ printed' = printed \cup {"git_error"}
           ELSE Caught("FileNotFoundError") /\ printed' = printed
                /\ UNCHANGED <<pushReturn, pushPath>>
    /\ UNCHANGED <<opcion, config, visible, hidden, response, meta, indexHtml, savedConfig,
                   commitMsg>>

\* Lines 376-380: main tests the returned value and ends.
AfterPush ==
    /\ pc = "returned"
    /\ printed' = IF pushReturn = "True" THEN printed \cup {"listo"} ELSE printed
    /\ Exit("0")
    /\ UNCHANGED <<opcion, config, visible, hidden, response, meta, error, indexHtml,
                   savedConfig, gitLog, commitMsg, pushReturn, pushPath>>

\* Lines 387-389: the error is printed and the process exits with status 1.
ReportError ==
    /\ pc = "except"
    /\ printed' = printed \cup {"error"}
    /\ Exit("1")
    /\ response' = NoResponse
    /\ UNCHANGED <<opcion, config, visible, hidden, meta, error, indexHtml, savedConfig,
                   gitLog, commitMsg, pushReturn, pushPath>>

Next ==
    \/ CheckGit
    \/ LoadConfig
    \/ AskUsePrevious
    \/ InputUrls
    \/ Validate
    \/ Extract
    \/ WriteHtml
    \/ SaveConfig
    \/ IsGitRepo
    \/ AskSetup
    \/ SetupGitRepo
    \/ DeployMenu
    \/ GitAdd
    \/ GitStatus
    \/ GitCommit
    \/ GitPush
    \/ AfterPush
    \/ ReportError

Spec == Init /\ [][Next]_vars

------------------------------------------------------------------------------
(* Properties.  While extract's response is in scope (between Extract and  *)
(* the next step of main) response and meta are the input and the result   *)
(* of the call.                                                            *)

Called == response.outcome # "none"

Is2xx(status) == 200 <= status /\ status < 300

\* The fetch succeeded with a 2xx status.
Fetched == response.outcome = "response" /\ Is2xx(response.status)

RequestFailed == response.outcome \in {"ConnectionError", "Timeout"}

\* The response carries a 4xx or 5xx status.
ErrorStatus == response.outcome = "response" /\ response.status \in 400..599

\* C1 as stated: whenever a fetched document has an og:title tag, the title
\* extract returns is that tag's trimmed content, also when the content is
\* missing, empty or whitespace-only.
C1_TitleIsOgTitle ==
    (Fetched /\ response.doc.ogTitle.present /\ meta.ok)
        => meta.title = strip(Get(response.doc.ogTitle, <<>>))

\* C1 amended: whenever a fetched document has an og:title tag whose trimmed
\* content is not empty, the title of every triple extract returns is that
\* trimmed content, whatever <title> element the document has, and the
\* <title> element is not read (no AttributeError).
C1_TitleIsNonEmptyOgTitle ==
    (Fetched /\ response.doc.ogTitle.present
        /\ strip(Get(response.doc.ogTitle, <<>>)) # <<>>)
        => /\ meta.ok => meta.title = strip(Get(response.doc.ogTitle, <<>>))
           /\ ~meta.ok => meta.cause # "AttributeError"

\* A padded og:title beside an empty <title> element: the title is the
\* trimmed og:title content.
C1_Witness ==
    /\ pc = "generate"
    /\ response.doc.ogTitle = TagWith(Padded)
    /\ response.doc.title = TitleEl(<<>>)
    /\ meta.ok
    /\ meta.title = <<"x">>

\* The description and the image as C2 states them: a tag that is present
\* decides its tier whatever its content.
ClaimedDesc(doc) ==
    IF doc.ogDesc.present THEN strip(Get(doc.ogDesc, <<>>))
    ELSE IF doc.metaDesc.present THEN strip(Get(doc.metaDesc, <<>>))
    ELSE SinDescripcion

ClaimedImage(url, doc) ==
    IF doc.ogImage.present THEN strip(Get(doc.ogImage, <<>>))
    ELSE IF doc.img.present /\ doc.img.hasContent THEN urljoin(url, doc.img.content)
    ELSE <<>>

\* C2 as stated: in every triple extract returns, the description is the
\* trimmed og:description if that tag is present, else the trimmed meta
\* description if present, else the default; the image is the trimmed og:image
\* if that tag is present, else the first <img> src joined to the page URL,
\* else empty.
C2_ChainsByPresence ==
    (Fetched /\ meta.ok)
        => /\ meta.desc = ClaimedDesc(response.doc)
           /\ meta.img = ClaimedImage(visible, response.doc)

\* The first non-empty trimmed content among the tags, in order.
FirstNonEmpty(tags) ==
    LET hits == {i \in 1..Len(tags) :
                    tags[i].present /\ strip(Get(tags[i], <<>>)) # <<>>}
    IN  IF hits = {} THEN <<>>
        ELSE strip(Get(tags[CHOOSE i \in hits : \A j \in hits : i <= j], <<>>))

\* C2 amended: in every triple extract returns, the description is the first
\* non-empty trimmed content of og:description and meta name="description", in
\* that order, else the default; the image is the trimmed og:image content when
\* it is not empty (as written, not joined), else the src of the first <img>,
\* when it has a non-empty one, joined to the page URL, else empty; each
\* whatever the other and the title are.
C2_ChainsByNonEmptyContent ==
    (Fetched /\ meta.ok)
        => LET doc == response.doc
               desc == FirstNonEmpty(<<doc.ogDesc, doc.metaDesc>>)
               og == FirstNonEmpty(<<doc.ogImage>>)
           IN  /\ meta.desc = IF desc = <<>> THEN SinDescripcion ELSE desc
               /\ og # <<>> => meta.img = og
               /\ (og = <<>> /\ doc.img.present /\ doc.img.hasContent
                     /\ doc.img.content # <<>>)
                     => meta.img = urljoin(visible, doc.img.content)
               /\ (og = <<>> /\ ~(doc.img.present /\ doc.img.hasContent
                     /\ doc.img.content # <<>>))
                     => meta.img = <<>>

\* The end-to-end scenario: og:title, no og:description, a meta description,
\* no og:image and a rooted <img src>, on a page below the site's root.
C2_Witness ==
    /\ pc = "generate"
    /\ visible = PageUrl
    /\ response.doc.ogTitle = TagWith(<<"x">>)
    /\ response.doc.ogDesc = NoTag
    /\ response.doc.metaDesc = TagWith(Padded)
    /\ response.doc.ogImage = NoTag
    /\ response.doc.img = TagWith(RootRef)
    /\ meta.desc = <<"x">>
    /\ meta.img = <<"https", ":", "/", "/", "site.test", "/", "p">>

\* C3: every triple extract returns has a non-empty title and a non-empty
\* description.
C3_TitleAndDescNonEmpty ==
    (Called /\ meta.ok) => meta.title # <<>> /\ meta.desc # <<>>

\* Whitespace-only og:title and <title>, a contentless og:description and an
\* empty meta description: both defaults are returned.
C3_Witness ==
    /\ pc = "generate"
    /\ response.doc.ogTitle = TagWith(<<" ">>)
    /\ response.doc.title = TitleEl(<<Text(<<" ">>)>>)
    /\ response.doc.ogDesc = TagNoContent
    /\ response.doc.metaDesc = TagWith(<<>>)
    /\ meta.title = SinTitulo
    /\ meta.desc = SinDescripcion

\* C4 as stated: every image URL extract returns is empty or absolute.
C4_ImageEmptyOrAbsolute ==
    (Called /\ meta.ok) => meta.img = <<>> \/ IsAbsoluteUrl(meta.img)

\* C5 as stated: after a fetch that succeeded with a 2xx status extract
\* returns a triple, whatever the document's title and meta elements are
\* (here for the documents whose <img> src urljoin accepts).
C5_FetchedAlwaysReturns ==
    (Fetched /\ ~UrlsplitRaises(response.doc.img.content)) => meta.ok

\* C6 as stated: a request error, a timeout or any non-2xx status ends extract
\* in a raised error, never in a triple.
C6_Non2xxRaises ==
    (RequestFailed \/ (response.outcome = "response" /\ ~Is2xx(response.status)))
        => ~meta.ok

\* C7 as stated: the raised error's kind is FetchError for a network error, a
\* timeout or an error status, and ParseError for any other fault.
C7_ErrorKindTellsCause ==
    (Called /\ ~meta.ok)
        => meta.exc = IF RequestFailed \/ ErrorStatus
                      THEN "FetchError" ELSE "ParseError"

\* C7 amended: extract raises one kind of error, a plain Exception, for every
\* failure; only the message it wraps (that of the original error: the
\* request's, the status's, or the fault met while reading the document) tells
\* a fetch failure from a parse failure.
C7_SingleWrappedError ==
    (Called /\ ~meta.ok)
        => /\ meta.exc = "Exception"
           /\ RequestFailed => meta.cause = response.outcome
           /\ ErrorStatus => meta.cause = "HTTPError"
           /\ ~(RequestFailed \/ ErrorStatus)
                 => meta.cause \in {"AttributeError", "ValueError"}

\* A timeout and an empty <title> both reach main as a plain Exception; here
\* the second.
C7_Witness ==
    /\ pc = "except"
    /\ Fetched
    /\ response.doc.title = TitleEl(<<>>)
    /\ meta.exc = "Exception"
    /\ meta.cause = "AttributeError"
    /\ error = "Exception"

\* extract raised in this run.
ExtractRaised == ~meta.ok /\ meta.exc # ""

\* C8: when extract raises, main halts: index.html and the configuration file
\* are not written, no git command beyond check_git's is run, the error is
\* reported and the exit status is 1; main goes on to generate the page only
\* with a triple extract returned, and index.html holds that triple.
C8_ExtractFailureHalts ==
    /\ ExtractRaised =>
        /\ ~indexHtml.written
        /\ ~savedConfig.loaded
        /\ \A i \in 1..Len(gitLog) : gitLog[i].cmd = "version"
        /\ pc \in {"except", "done"}
        /\ pc = "except" => exit = "running" /\ error = "Exception"
        /\ pc = "done" => exit = "1" /\ "error" \in printed
    /\ pc = "generate" => meta.ok /\ ~RequestFailed /\ ~ErrorStatus
    /\ indexHtml.written =>
        /\ meta.ok
        /\ indexHtml.title = Escape(meta.title)
        /\ indexHtml.desc = Escape(meta.desc)
        /\ indexHtml.image = meta.img

\* A run that ended with status 1 after extract raised.
C8_Witness ==
    /\ pc = "done"
    /\ ExtractRaised
    /\ exit = "1"
    /\ "error" \in printed
    /\ ~indexHtml.written

\* C9 as stated: the value git_push_to_github returns when there is nothing
\* to commit differs from the values it returns on success and on a git
\* failure.
C9_NoOpReturnIsDistinct ==
    pushPath = "nothing_to_commit"
        => pushReturn \notin {ReturnOf("pushed"), ReturnOf("git_error")}

IsDeployCmd(e) == e.cmd \in {"add", "status", "commit", "push"}

\* The repository was found, or set up by init, remote add and branch -M.
RepoReady ==
    \/ \E i \in 1..Len(gitLog) : gitLog[i] = Ran("rev-parse", "ok")
    \/ \A c \in {"init", "remote", "branch"} :
        \E i \in 1..Len(gitLog) : gitLog[i] = Ran(c, "ok")

\* C10: the deployment commands run last and in the order add, status, commit,
\* push, each only after the one before succeeded (status having reported
\* changes); True is returned only after a successful push; and none is run
\* unless both URLs passed the http(s) check, index.html was written, the
\* directory is or was set up as a repository, and option 1 was chosen.
C10_GitStepsInOrder ==
    LET d == SelectSeq(gitLog, IsDeployCmd)
        order == <<"add", "status", "commit", "push">>
        good == <<"ok", "dirty", "ok", "ok">>
    IN  /\ Len(d) <= 4
        /\ \A i \in 1..Len(d) : d[i].cmd = order[i]
        /\ \A i \in 1..(Len(d) - 1) : d[i].outcome = good[i]
        /\ d = SubSeq(gitLog, Len(gitLog) - Len(d) + 1, Len(gitLog))
        /\ pushReturn = "True" => Len(d) = 4 /\ d[4].outcome = "ok"
        /\ d # <<>> =>
            /\ StartsWithHttp(visible)
            /\ StartsWithHttp(hidden)
            /\ indexHtml.written
            /\ RepoReady
            /\ opcion = "1"

\* A push that succeeded in a repository set up during the run.
C10_Witness ==
    /\ pushReturn = "True"
    /\ \E i \in 1..Len(gitLog) : gitLog[i] = Ran("init", "ok")
    /\ gitLog[Len(gitLog)] = Ran("push", "ok")

====
